---- MODULE Spec2Model ----
(***************************************************************************)
(* libcommhistory: the ContactResolver (src/src/contactresolver.cpp) and   *)
(* the RecentContactsModel merger (src/src/recentcontactsmodel.cpp).       *)
(*                                                                         *)
(* Strings are sequences of characters, so that isEmpty, startsWith and    *)
(* the phone number minimisation are computed and not assumed.             *)
(***************************************************************************)
EXTENDS Integers, Sequences, FiniteSets, TLC

(***************************************************************************)
(* Bounds of the model.                                                    *)
(***************************************************************************)
\* number of ContactResolver::add calls in one behaviour
MaxAdds == 2
\* longest list handed to ContactResolver::add(const QList<Recipient> &)
MaxAddList == 2
\* checkIfFinished invocations the event loop holds at once
MaxQueuedChecks == 2

\* largest queryLimit of the recent contacts model
MaxLimit == 2
\* number of events the event source produces in one behaviour
MaxEvents == 3
\* longest batch of events handed to prependEvents
MaxBatch == 3
\* contact ids the events resolve to are 1..MaxContact
MaxContact == 2
\* contacts 1..MaxFavorite can be made favorites
MaxFavorite == 1

(***************************************************************************)
(* Strings and addresses.                                                  *)
(***************************************************************************)
\* QString::isEmpty
isEmpty(s) == Len(s) = 0

\* QString::startsWith
startsWith(s, prefix) ==
    /\ Len(s) >= Len(prefix)
    /\ SubSeq(s, 1, Len(prefix)) = prefix

\* the telepathy ring account path prefix, one token here
RING_ACCOUNT == <<"ring">>

\* commonutils.cpp: localUidComparesPhoneNumbers
localUidComparesPhoneNumbers(localUid) == startsWith(localUid, RING_ACCOUNT)

\* commonutils.cpp: phoneNumberMatchLength, the library's
\* DefaultMaximumPhoneNumberCharacters
phoneNumberMatchLength == 8

Digits == {"5", "6"}

RECURSIVE OnlyDigits(_)
OnlyDigits(s) ==
    IF s = <<>> THEN <<>>
    ELSE IF Head(s) \in Digits THEN <<Head(s)>> \o OnlyDigits(Tail(s))
         ELSE OnlyDigits(Tail(s))

\* QtContactsSqliteExtensions::minimizePhoneNumber(number, n): the last n
\* characters of the number without its punctuation
minimizePhoneNumber(number) ==
    LET d == OnlyDigits(number)
    IN  IF Len(d) > phoneNumberMatchLength
        THEN SubSeq(d, Len(d) - phoneNumberMatchLength + 1, Len(d))
        ELSE d

\* Recipient::phoneNumberMatchDetails: the normalized match key of a number
phoneNumberMatchDetails(number) == minimizePhoneNumber(number)

\* Recipient::matchesPhoneNumber: the recipient's address has that match key
matchesPhoneNumber(recipient, phoneNumber) ==
    minimizePhoneNumber(recipient.remoteUid) = phoneNumber

\* Recipient(localUid, remoteUid); two recipients are equal iff both match
Recipient(localUid, remoteUid) == [localUid |-> localUid, remoteUid |-> remoteUid]

\* Recipient::isPhoneNumber
isPhoneNumber(recipient) == localUidComparesPhoneNumbers(recipient.localUid)

RingA == <<"ring", "a">>
RingB == <<"ring", "b">>
Gabble == <<"gabble">>

Range(f) == {f[i] : i \in DOMAIN f}

\* the recipients the consumers submit
RecipientList ==
    << Recipient(RingA, <<"5", "5">>),
       Recipient(RingB, <<"5", "-", "5">>),
       Recipient(Gabble, <<"x">>),
       Recipient(<<>>, <<"5", "5">>),
       Recipient(RingA, <<>>) >>

Recipients == Range(RecipientList)

\* a SeasideCache::CacheItem pointer, by the contact id setResolved reads
\* from it: 0 is the null pointer
NullItem == 0
CacheItems == {NullItem, 1}

\* the resolution outcome held by the shared RecipientPrivate of a pair
Unresolved == [resolved |-> FALSE, contactId |-> 0]

\* RecipientPrivate::setResolved(recipient, item)
setResolved(item) == [resolved |-> TRUE, contactId |-> item]

VARIABLES
    pending,          \* ContactResolverPrivate::pending
    resolving,        \* ContactResolverPrivate::resolving
    forceResolving,   \* ContactResolverPrivate::forceResolving
    outcome,          \* recipient -> its resolution outcome
    checkQueue,       \* queued checkIfFinished invocations in the event loop
    dirRequests,      \* directory lookups whose callback is still to come
    unfinished,       \* Idle -> Resolving transitions minus finished() signals
    lookups,          \* recipient -> directory lookups since its last outcome
    submitted,        \* recipients submitted since the resolver last left Idle
    adds              \* number of add calls so far

rvars == <<pending, resolving, forceResolving, outcome, checkQueue, dirRequests,
           unfinished, lookups, submitted, adds>>

VARIABLES
    rows,               \* the events of eventRootItem, row 0 first
    unresolvedEvents,   \* RecentContactsModelPrivate::unresolvedEvents
    resolvedEvents,     \* RecentContactsModelPrivate::resolvedEvents
    resolvedContactIds, \* RecentContactsModelPrivate::resolvedContactIds
    inResolver,         \* events handed to resolveAddedEvents, not yet back
    removedRows,        \* the row ranges the last prependEvents removed
    overtaken,          \* ids of events that were waiting for the resolver
                        \* when events of a later batch entered the list
    queryLimit,         \* EventModelPrivate::queryLimit
    eventCategoryMask,  \* EventModelPrivate::eventCategoryMask
    excludeFavorites,   \* RecentContactsModelPrivate::excludeFavorites
    addressFlags,       \* RecentContactsModelPrivate::addressFlags
    favorites,          \* the contacts the directory holds as favorites
    notified,           \* the favorites whose change the model has been told
                        \* of while it has been excluding favorites
    nextId              \* the id of the next event of the event source

mvars == <<rows, unresolvedEvents, resolvedEvents, resolvedContactIds, inResolver,
           removedRows, overtaken, queryLimit, eventCategoryMask, excludeFavorites, addressFlags,
           favorites, notified, nextId>>

vars == <<rvars, mvars>>

(***************************************************************************)
(* ContactResolverPrivate.  Its operations are functions of the record     *)
(*   [pending, resolving, outcome, checkQueue, dirRequests, unfinished,    *)
(*    lookups]                                                             *)
(* so that a handler is the composition of the calls it makes.             *)
(***************************************************************************)
ResolverState ==
    [pending |-> pending, resolving |-> resolving, outcome |-> outcome,
     checkQueue |-> checkQueue, dirRequests |-> dirRequests,
     unfinished |-> unfinished, lookups |-> lookups]

\* the callback SeasideCache makes for a lookup of this recipient that missed
\* its cache: resolvePhoneNumber answers with (QString(), number),
\* resolveOnlineAccount with (localUid, remoteUid)
Request(recipient) ==
    IF isPhoneNumber(recipient)
    THEN [first |-> <<>>, second |-> recipient.remoteUid]
    ELSE [first |-> recipient.localUid, second |-> recipient.remoteUid]

\* resolve without the test of pending.contains(recipient)
resolveWithoutPendingTest(s, recipient, cache, force) ==
    IF ~force /\ s.outcome[recipient].resolved
    THEN s
    ELSE IF isEmpty(recipient.localUid) \/ isEmpty(recipient.remoteUid)
    THEN [s EXCEPT !.outcome[recipient] = setResolved(NullItem),
                   !.lookups[recipient] = 0]
    ELSE IF cache[recipient] # NullItem
    THEN [s EXCEPT !.outcome[recipient] = setResolved(cache[recipient]),
                   !.lookups[recipient] = 0]
    ELSE [s EXCEPT !.pending = @ \cup {recipient},
                   !.dirRequests = @ \cup {Request(recipient)},
                   !.lookups[recipient] = @ + 1]

\* resolve without the test of empty localUid or remoteUid
resolveWithoutUidTest(s, recipient, cache, force) ==
    IF ~force /\ s.outcome[recipient].resolved
    THEN s
    ELSE IF recipient \in s.pending
    THEN s
    ELSE [s EXCEPT !.pending = @ \cup {recipient},
                   !.dirRequests = @ \cup {Request(recipient)},
                   !.lookups[recipient] = @ + 1]

\* resolve reading forceResolving as off at line 122
resolveUnforced(s, recipient, cache, force) ==
    IF s.outcome[recipient].resolved
    THEN s
    ELSE IF isEmpty(recipient.localUid) \/ isEmpty(recipient.remoteUid)
    THEN [s EXCEPT !.outcome[recipient] = setResolved(NullItem),
                   !.lookups[recipient] = 0]
    ELSE IF recipient \in s.pending
    THEN s
    ELSE IF cache[recipient] # NullItem
    THEN [s EXCEPT !.outcome[recipient] = setResolved(cache[recipient]),
                   !.lookups[recipient] = 0]
    ELSE [s EXCEPT !.pending = @ \cup {recipient},
                   !.dirRequests = @ \cup {Request(recipient)},
                   !.lookups[recipient] = @ + 1]

\* ContactResolverPrivate::resolve; cache[recipient] is what
\* SeasideCache::resolvePhoneNumber or resolveOnlineAccount returns if asked
\* (NullItem: not in the cache, the callback will follow)
resolve(s, recipient, cache, force) ==
    IF ~force /\ s.outcome[recipient].resolved
    THEN s
    ELSE IF isEmpty(recipient.localUid) \/ isEmpty(recipient.remoteUid)
    THEN [s EXCEPT !.outcome[recipient] = setResolved(NullItem),
                   !.lookups[recipient] = 0]
    ELSE IF recipient \in s.pending
    THEN s
    ELSE IF cache[recipient] # NullItem
    THEN [s EXCEPT !.outcome[recipient] = setResolved(cache[recipient]),
                   !.lookups[recipient] = 0]
    ELSE [s EXCEPT !.pending = @ \cup {recipient},
                   !.dirRequests = @ \cup {Request(recipient)},
                   !.lookups[recipient] = @ + 1]

\* the foreach loop of ContactResolver::add over a list
RECURSIVE resolveEach(_, _, _, _)
resolveEach(s, recipients, cache, force) ==
    IF recipients = <<>> THEN s
    ELSE resolveEach(resolve(s, Head(recipients), cache, force),
                     Tail(recipients), cache, force)

\* checkIfFinishedAsynchronously emitting finished() inside the call when
\* nothing is pending, instead of queueing the check
checkIfFinishedDirectly(s) ==
    IF ~s.resolving
    THEN [s EXCEPT !.unfinished = IF s.pending = {} THEN @ ELSE @ + 1,
                   !.resolving = s.pending # {}]
    ELSE s

\* checkIfFinishedAsynchronously without the queued invocation
checkIfFinishedNeverQueued(s) ==
    IF ~s.resolving
    THEN [s EXCEPT !.resolving = TRUE, !.unfinished = @ + 1]
    ELSE s

\* checkIfFinishedAsynchronously setting resolving only when it queues the
\* check
checkIfFinishedAsynchronouslyWhenEmpty(s) ==
    IF ~s.resolving /\ s.pending = {}
    THEN [s EXCEPT !.resolving = TRUE,
                   !.unfinished = @ + 1,
                   !.checkQueue = @ + 1]
    ELSE s

\* ContactResolverPrivate::checkIfFinishedAsynchronously
checkIfFinishedAsynchronously(s) ==
    IF ~s.resolving
    THEN [s EXCEPT !.resolving = TRUE,
                   !.unfinished = @ + 1,
                   !.checkQueue = IF s.pending = {} THEN @ + 1 ELSE @]
    ELSE s

\* checkIfFinished without the test of resolving
checkIfFinishedWhenIdle(s) ==
    IF s.pending = {}
    THEN [s EXCEPT !.resolving = FALSE, !.unfinished = @ - 1]
    ELSE s

\* checkIfFinished without the test of pending.isEmpty()
checkIfFinishedWhilePending(s) ==
    IF s.resolving
    THEN [s EXCEPT !.resolving = FALSE, !.unfinished = @ - 1]
    ELSE s

\* ContactResolverPrivate::checkIfFinished
checkIfFinished(s) ==
    IF s.resolving /\ s.pending = {}
    THEN [s EXCEPT !.resolving = FALSE, !.unfinished = @ - 1]
    ELSE s

\* the pending entries a phone number callback for second resolves
matchingPending(s, second) ==
    {r \in s.pending : matchesPhoneNumber(r, phoneNumberMatchDetails(second))}

\* the loop of the phone number branch of addressResolved over the pending
\* entries still to visit: a matching entry gets the directory's best match
\* for its own number and is erased;
\* byNumber[r] is SeasideCache::itemByPhoneNumber(r.remoteUid)
RECURSIVE visitPending(_, _, _, _)
visitPending(s, toVisit, phoneNumber, byNumber) ==
    IF toVisit = {} THEN s
    ELSE LET it == CHOOSE r \in toVisit : TRUE
         IN  IF matchesPhoneNumber(it, phoneNumber)
             THEN visitPending([s EXCEPT !.outcome[it] = setResolved(byNumber[it]),
                                         !.lookups[it] = 0,
                                         !.pending = @ \ {it}],
                               toVisit \ {it}, phoneNumber, byNumber)
             ELSE visitPending(s, toVisit \ {it}, phoneNumber, byNumber)

\* the phone number branch resolving the entry with the queried remoteUid only
resolveQueriedNumberOnly(s, second, byNumber) ==
    visitPending(s, {r \in s.pending : r.remoteUid = second},
                 phoneNumberMatchDetails(second), byNumber)

\* the phone number branch of addressResolved
resolvePhoneNumberMatches(s, second, byNumber) ==
    visitPending(s, s.pending, phoneNumberMatchDetails(second), byNumber)

\* the exact pair branch without the test of line 193
resolveExactPairUnchecked(s, first, second, item) ==
    LET recipient == Recipient(first, second)
    IN  [s EXCEPT !.outcome[recipient] = setResolved(item),
                  !.lookups[recipient] = 0,
                  !.pending = @ \ {recipient}]

\* the exact pair branch of addressResolved
resolveExactPair(s, first, second, item) ==
    LET recipient == Recipient(first, second)
    IN  IF recipient \in s.pending
        THEN [s EXCEPT !.outcome[recipient] = setResolved(item),
                       !.lookups[recipient] = 0,
                       !.pending = @ \ {recipient}]
        ELSE s

\* addressResolved without the checkIfFinished of line 199
addressResolvedWithoutCheck(s, first, second, item, byNumber) ==
    IF isEmpty(second)
    THEN s
    ELSE IF isEmpty(first)
    THEN resolvePhoneNumberMatches(s, second, byNumber)
    ELSE resolveExactPair(s, first, second, item)

\* addressResolved going on to checkIfFinished for an empty second
addressResolvedAlwaysChecking(s, first, second, item, byNumber) ==
    IF isEmpty(second)
    THEN checkIfFinished(s)
    ELSE IF isEmpty(first)
    THEN checkIfFinished(resolvePhoneNumberMatches(s, second, byNumber))
    ELSE checkIfFinished(resolveExactPair(s, first, second, item))

\* ContactResolverPrivate::addressResolved
addressResolved(s, first, second, item, byNumber) ==
    IF isEmpty(second)
    THEN s
    ELSE IF isEmpty(first)
    THEN checkIfFinished(resolvePhoneNumberMatches(s, second, byNumber))
    ELSE checkIfFinished(resolveExactPair(s, first, second, item))

\* ContactResolver::add(const RecipientList &), add(const QList<Recipient> &)
addList(s, recipients, cache, force) ==
    checkIfFinishedAsynchronously(resolveEach(s, recipients, cache, force))

\* ContactResolver::add(const Recipient &)
add(s, recipient, cache, force) ==
    checkIfFinishedAsynchronously(resolve(s, recipient, cache, force))

(***************************************************************************)
(* The resolver's specification.  submitted is history kept for the        *)
(* specification that reads it (track).                                    *)
(***************************************************************************)
Commit(t) ==
    /\ pending' = t.pending
    /\ resolving' = t.resolving
    /\ outcome' = t.outcome
    /\ checkQueue' = t.checkQueue
    /\ dirRequests' = t.dirRequests
    /\ unfinished' = t.unfinished
    /\ lookups' = t.lookups

\* the recent contacts model as constructed, before any configuration
MergerConstructed ==
    /\ rows = <<>>
    /\ unresolvedEvents = <<>>
    /\ resolvedEvents = <<>>
    /\ resolvedContactIds = {}
    /\ inResolver = <<>>
    /\ removedRows = <<>>
    /\ overtaken = {}
    /\ excludeFavorites = FALSE
    /\ addressFlags = {}
    /\ favorites = {}
    /\ notified = {}
    /\ nextId = 1

RInit ==
    /\ MergerConstructed
    /\ queryLimit = 0
    /\ eventCategoryMask = {"call", "sms"}
    /\ pending = {}
    /\ resolving = FALSE
    /\ forceResolving = FALSE
    /\ outcome = [r \in Recipients |-> Unresolved]
    /\ checkQueue = 0
    /\ dirRequests = {}
    /\ unfinished = 0
    /\ lookups = [r \in Recipients |-> 0]
    /\ submitted = {}
    /\ adds = 0

\* the recipients of the set that reach the directory query of resolve()
Queried(S) == {r \in S : ~isEmpty(r.localUid) /\ ~isEmpty(r.remoteUid)}

\* the lists of 2..n recipients, repetitions included.  add() resolves its
\* recipients one after another and resolve() of one recipient reads and
\* writes nothing of another, so one order of each list stands for all.
Lists(n) ==
    UNION {{[i \in 1 .. k |-> RecipientList[f[i]]] :
               f \in {g \in [1 .. k -> DOMAIN RecipientList] :
                         \A i \in 1 .. k - 1 : g[i] <= g[i + 1]}} :
           k \in 2 .. n}

\* ContactResolver::setForceResolving
SetForceResolving ==
    /\ \E enabled \in BOOLEAN :
          /\ enabled # forceResolving
          /\ forceResolving' = enabled
    /\ UNCHANGED <<pending, resolving, outcome, checkQueue, dirRequests,
                   unfinished, lookups, submitted, adds>>
    /\ UNCHANGED mvars

\* the recipients submitted since the resolver last left Idle
Submitted(track, batch) ==
    IF ~track THEN submitted
    ELSE IF resolving THEN submitted \cup batch
    ELSE batch

\* a consumer calls add(recipient)
Add(track) ==
    /\ adds < MaxAdds
    /\ \E recipient \in Recipients :
       \E cache \in [Queried({recipient}) -> CacheItems] :
          LET t == add(ResolverState, recipient, cache, forceResolving)
          IN  /\ t.checkQueue <= MaxQueuedChecks
              /\ Commit(t)
              /\ submitted' = Submitted(track, {recipient})
    /\ adds' = adds + 1
    /\ UNCHANGED <<forceResolving, mvars>>

\* a consumer calls add(recipients)
AddList(track) ==
    /\ adds < MaxAdds
    /\ \E recipients \in Lists(MaxAddList) :
       \E cache \in [Queried(Range(recipients)) -> CacheItems] :
          LET t == addList(ResolverState, recipients, cache, forceResolving)
          IN  /\ t.checkQueue <= MaxQueuedChecks
              /\ Commit(t)
              /\ submitted' = Submitted(track, Range(recipients))
    /\ adds' = adds + 1
    /\ UNCHANGED <<forceResolving, mvars>>

\* the event loop runs a queued checkIfFinished
RunQueuedCheck ==
    /\ checkQueue > 0
    /\ Commit(checkIfFinished([ResolverState EXCEPT !.checkQueue = @ - 1]))
    /\ UNCHANGED <<forceResolving, submitted, adds, mvars>>

\* the answers the directory can give with a callback (first, second): the
\* item it passes and its best matches for the pending numbers
Answers(first, second) ==
    IF isEmpty(first) /\ ~isEmpty(second)
    THEN {[item |-> NullItem, byNumber |-> f] :
             f \in [matchingPending(ResolverState, second) -> CacheItems]}
    ELSE {[item |-> i, byNumber |-> <<>>] : i \in CacheItems}

\* the directory answers one of the lookups it was asked
DirectoryCallback(request) ==
    /\ request \in dirRequests
    /\ dirRequests' = dirRequests \ {request}
    /\ UNCHANGED <<forceResolving, submitted, adds, mvars>>
    /\ \E a \in Answers(request.first, request.second) :
          Commit(addressResolved(
                     [ResolverState EXCEPT !.dirRequests = @ \ {request}],
                     request.first, request.second, a.item, a.byNumber))

\* the callbacks the directory makes for the recipients
Requests == {Request(r) : r \in {x \in Recipients :
                ~isEmpty(x.localUid) /\ ~isEmpty(x.remoteUid)}}

\* callbacks with a missing field
Malformed == {[first |-> <<>>, second |-> <<>>], [first |-> Gabble, second |-> <<>>]}

\* the directory calls back for an address it was asked before and has
\* answered already, or with a missing field
StrayCallback ==
    /\ \E request \in (Requests \cup Malformed) \ dirRequests :
       \E a \in Answers(request.first, request.second) :
          Commit(addressResolved(ResolverState, request.first, request.second,
                                 a.item, a.byNumber))
    /\ UNCHANGED <<forceResolving, submitted, adds, mvars>>

RNextOf(track) ==
    \/ SetForceResolving
    \/ Add(track)
    \/ AddList(track)
    \/ RunQueuedCheck
    \/ \E request \in Requests : DirectoryCallback(request)
    \/ StrayCallback

RNext == RNextOf(FALSE)

\* the resolver
ResolverSpec == RInit /\ [][RNext]_vars

\* the resolver with the history of the recipients submitted in each episode
EpisodeSpec == RInit /\ [][RNextOf(TRUE)]_vars

\* the event loop delivers a queued event: a deferred checkIfFinished is
\* run, or an answer of the directory is handed to addressResolved.  These
\* are the steps of RunQueuedCheck and DirectoryCallback, the only ones that
\* shorten checkQueue or dirRequests.
EventDelivered ==
    \/ /\ checkQueue > 0
       /\ checkQueue' = checkQueue - 1
       /\ dirRequests' = dirRequests
    \/ /\ \E request \in dirRequests : dirRequests' = dirRequests \ {request}
       /\ checkQueue' = checkQueue

\* the event loop does not stop while an event is queued
ResolverFairness == WF_<<checkQueue, dirRequests>>(EventDelivered)

ResolverLive == RInit /\ [][RNext]_vars /\ ResolverFairness

(***************************************************************************)
(* The recent contacts model (recentcontactsmodel.cpp).  An event is the   *)
(* record of the fields the model reads: its id, the contact id of its     *)
(* first recipient (0 while unresolved or unknown to the directory), its   *)
(* category bits and the address flags of the recipient's contact.         *)
(***************************************************************************)
CallCategory == {"call"}
SMSCategory == {"sms"}
\* Event::AnyCategory: every category bit
AnyCategory == CallCategory \cup SMSCategory

\* QContactStatusFlags::HasPhoneNumber
HasPhoneNumber == {"phone"}

Event(id, contactId, category, contactFlags) ==
    [id |-> id, contactId |-> contactId, category |-> category,
     contactFlags |-> contactFlags]

\* eventContact: the first contact id of the event's recipients
eventContact(event) == event.contactId

\* contactIsFavorite: the directory's item of the contact is a favorite
contactIsFavorite(contactId) == contactId \in favorites

\* Recipient::matchesAddressFlags
matchesAddressFlags(event, flags) == (event.contactFlags \cap flags) # {}

\* the private state of the model, with the row changes and signals of the
\* call in progress
MergerState ==
    [rows |-> rows,
     unresolvedEvents |-> unresolvedEvents,
     resolvedEvents |-> resolvedEvents,
     resolvedContactIds |-> resolvedContactIds,
     inResolver |-> inResolver,
     removedRows |-> <<>>,
     insertedRows |-> <<>>,
     resolvingChanged |-> 0]

\* resolveAddedEvents: the events go to the resolver and come back, resolved,
\* through prependEvents(events, true)
resolveAddedEvents(m, events) == [m EXCEPT !.inResolver = @ \o events]

\* line 203 letting every category pass
categoryIgnored(event) == TRUE

\* prependEvents, line 203
categoryAccepted(event) ==
    eventCategoryMask = AnyCategory \/ (event.category \cap eventCategoryMask) # {}

\* line 211 without the test of resolvedContactIds
isKnownContact(m, contactId) == contactId # 0

\* prependEvents, line 211
isNewContact(m, contactId) ==
    contactId # 0 /\ contactId \notin m.resolvedContactIds

\* prependEvents, lines 200-230: the loop over the events of the batch
RECURSIVE appendEvents(_, _, _)
appendEvents(m, events, resolved) ==
    IF events = <<>> THEN m
    ELSE LET event == Head(events)
             contactId == event.contactId
         IN  IF ~categoryAccepted(event) THEN appendEvents(m, Tail(events), resolved)
             ELSE IF ~resolved
             THEN appendEvents([m EXCEPT !.unresolvedEvents = Append(@, event)],
                               Tail(events), resolved)
             ELSE IF ~isNewContact(m, contactId)
             THEN appendEvents(m, Tail(events), resolved)
             ELSE IF excludeFavorites /\ contactIsFavorite(contactId)
             THEN appendEvents(m, Tail(events), resolved)
             ELSE IF addressFlags = {} \/ matchesAddressFlags(event, addressFlags)
             THEN LET n == [m EXCEPT !.resolvedContactIds = @ \cup {contactId},
                                     !.resolvedEvents = Append(@, event)]
                  IN  IF Len(n.resolvedEvents) = queryLimit THEN n
                      ELSE appendEvents(n, Tail(events), resolved)
             ELSE appendEvents(m, Tail(events), resolved)

\* lines 245-252 finding no row
replacedNoRows(m) == {}

\* lines 245-252 looking at row 0 only
replacedFirstRow(m) ==
    {row \in {0} \cap (0 .. Len(m.rows) - 1) :
        eventContact(m.rows[row + 1]) \in m.resolvedContactIds}

\* prependEvents, lines 245-252: the rows of the contacts of the new events
replacedRows(m) ==
    {row \in 0 .. Len(m.rows) - 1 :
        eventContact(m.rows[row + 1]) \in m.resolvedContactIds}

\* line 256 without overflow
trimNothing(m, removeSet) == 0

\* prependEvents, line 256
trimCount(m, removeSet) ==
    Len(m.rows) + Len(m.resolvedEvents) - Cardinality(removeSet) - queryLimit

\* lines 259-261 skipping no row
skipNothing(removeSet, removeIndex) == removeIndex

\* prependEvents, lines 259-261
RECURSIVE skipRemoved(_, _)
skipRemoved(removeSet, removeIndex) ==
    IF removeIndex \in removeSet THEN skipRemoved(removeSet, removeIndex - 1)
    ELSE removeIndex

\* prependEvents, lines 258-269
RECURSIVE trimRows(_, _, _)
trimRows(removeSet, removeIndex, count) ==
    IF count <= 0 THEN removeSet
    ELSE LET index == skipRemoved(removeSet, removeIndex)
         IN  IF index < 0 THEN removeSet
             ELSE trimRows(removeSet \cup {index}, index - 1, count - 1)

\* prependEvents, lines 245-270
removeSetOf(m) ==
    LET removeSet == replacedRows(m)
    IN  IF queryLimit # 0
        THEN trimRows(removeSet, Len(m.rows) - 1, trimCount(m, removeSet))
        ELSE removeSet

\* removeSet.values() sorted
RECURSIVE sorted(_)
sorted(S) ==
    IF S = {} THEN <<>>
    ELSE LET least == CHOOSE x \in S : \A y \in S : x <= y
         IN  <<least>> \o sorted(S \ {least})

\* lines 279-284 never extending the run
singleRow(removeIndices, consecutiveCount) == consecutiveCount

\* prependEvents, lines 279-284
RECURSIVE consecutive(_, _)
consecutive(removeIndices, consecutiveCount) ==
    LET count == Len(removeIndices)
        end == removeIndices[count]
    IN  IF (count - consecutiveCount) > 0
           /\ removeIndices[count - consecutiveCount] = end - consecutiveCount
        THEN consecutive(removeIndices, consecutiveCount + 1)
        ELSE consecutiveCount

\* eventRootItem->removeAt for the rows start..end
removeAt(list, start, end) ==
    SubSeq(list, 1, start) \o SubSeq(list, end + 2, Len(list))

\* prependEvents, lines 277-295
RECURSIVE removeObsolete(_, _)
removeObsolete(m, removeIndices) ==
    IF removeIndices = <<>> THEN m
    ELSE LET count == Len(removeIndices)
             end == removeIndices[count]
             consecutiveCount == consecutive(removeIndices, 1)
             start == end - consecutiveCount + 1
         IN  removeObsolete(
                 [m EXCEPT !.rows = removeAt(@, start, end),
                           !.removedRows = Append(@, <<start, end>>)],
                 SubSeq(removeIndices, 1, count - consecutiveCount))

\* lines 297-307 inserting every event at row 0
insertEachAtStart(m) ==
    LET reversed == [i \in DOMAIN m.resolvedEvents |->
                        m.resolvedEvents[Len(m.resolvedEvents) + 1 - i]]
    IN  [m EXCEPT !.rows = reversed \o @,
                  !.insertedRows = reversed,
                  !.resolvedEvents = <<>>,
                  !.resolvedContactIds = {}]

\* prependEvents, lines 297-307
insertResolved(m) ==
    [m EXCEPT !.rows = m.resolvedEvents \o @,
              !.insertedRows = m.resolvedEvents,
              !.resolvedEvents = <<>>,
              !.resolvedContactIds = {}]

\* prependEvents, lines 243-308
mergeResolved(m) ==
    IF m.resolvedEvents # <<>>
    THEN insertResolved(removeObsolete(m, sorted(removeSetOf(m))))
    ELSE m

\* prependEvents without the test of an unbounded list at line 234
prependEventsBounded(m, events, resolved) ==
    LET a == appendEvents(m, events, resolved)
    IN  IF a.unresolvedEvents # <<>> /\ Len(a.resolvedEvents) < queryLimit
        THEN resolveAddedEvents([a EXCEPT !.unresolvedEvents = Tail(@)],
                                <<Head(a.unresolvedEvents)>>)
        ELSE LET b == mergeResolved([a EXCEPT !.unresolvedEvents = <<>>])
             IN  IF resolved THEN [b EXCEPT !.resolvingChanged = @ + 1] ELSE b

\* prependEvents emitting resolvingChanged before the return of line 236
prependEventsSignalling(m, events, resolved) ==
    LET a == appendEvents(m, events, resolved)
    IN  IF a.unresolvedEvents # <<>>
           /\ (queryLimit = 0 \/ Len(a.resolvedEvents) < queryLimit)
        THEN LET b == resolveAddedEvents([a EXCEPT !.unresolvedEvents = Tail(@)],
                                         <<Head(a.unresolvedEvents)>>)
             IN  IF resolved THEN [b EXCEPT !.resolvingChanged = @ + 1] ELSE b
        ELSE LET b == mergeResolved([a EXCEPT !.unresolvedEvents = <<>>])
             IN  IF resolved THEN [b EXCEPT !.resolvingChanged = @ + 1] ELSE b

\* prependEvents merging the accepted events before the hand-off of line 235
prependEventsMergingFirst(m, events, resolved) ==
    LET a == appendEvents(m, events, resolved)
    IN  IF a.unresolvedEvents # <<>>
           /\ (queryLimit = 0 \/ Len(a.resolvedEvents) < queryLimit)
        THEN resolveAddedEvents(mergeResolved([a EXCEPT !.unresolvedEvents = Tail(@)]),
                                <<Head(a.unresolvedEvents)>>)
        ELSE LET b == mergeResolved([a EXCEPT !.unresolvedEvents = <<>>])
             IN  IF resolved THEN [b EXCEPT !.resolvingChanged = @ + 1] ELSE b

\* prependEvents returning at line 236 without the hand-off of line 235
prependEventsKeepingQueue(m, events, resolved) ==
    LET a == appendEvents(m, events, resolved)
    IN  IF a.unresolvedEvents # <<>>
           /\ (queryLimit = 0 \/ Len(a.resolvedEvents) < queryLimit)
        THEN a
        ELSE LET b == mergeResolved([a EXCEPT !.unresolvedEvents = <<>>])
             IN  IF resolved THEN [b EXCEPT !.resolvingChanged = @ + 1] ELSE b

\* RecentContactsModelPrivate::prependEvents
prependEvents(m, events, resolved) ==
    LET a == appendEvents(m, events, resolved)
    IN  IF a.unresolvedEvents # <<>>
           /\ (queryLimit = 0 \/ Len(a.resolvedEvents) < queryLimit)
        THEN resolveAddedEvents([a EXCEPT !.unresolvedEvents = Tail(@)],
                                <<Head(a.unresolvedEvents)>>)
        ELSE LET b == mergeResolved([a EXCEPT !.unresolvedEvents = <<>>])
             IN  IF resolved THEN [b EXCEPT !.resolvingChanged = @ + 1] ELSE b

\* RecentContactsModelPrivate::removeFavorites
removeFavorites(m, recipients) ==
    LET favoriteIds == {c \in recipients : contactIsFavorite(c)}
    IN  [m EXCEPT !.rows = SelectSeq(@, LAMBDA e : eventContact(e) \notin favoriteIds)]

\* RecentContactsModelPrivate::slotContactDetailsChanged
slotContactDetailsChanged(m, recipients) ==
    IF excludeFavorites THEN removeFavorites(m, recipients) ELSE m

\* the resolver is not part of the behaviours of the recent contacts model
ResolverIdle ==
    /\ pending = {}
    /\ resolving = FALSE
    /\ forceResolving = FALSE
    /\ outcome = [r \in Recipients |-> Unresolved]
    /\ checkQueue = 0
    /\ dirRequests = {}
    /\ unfinished = 0
    /\ lookups = [r \in Recipients |-> 0]
    /\ submitted = {}
    /\ adds = 0

MInit ==
    /\ MergerConstructed
    /\ queryLimit \in 0 .. MaxLimit
    /\ eventCategoryMask \in {AnyCategory, CallCategory}
    /\ ResolverIdle

CommitMerger(m) ==
    /\ rows' = m.rows
    /\ unresolvedEvents' = m.unresolvedEvents
    /\ resolvedEvents' = m.resolvedEvents
    /\ resolvedContactIds' = m.resolvedContactIds
    /\ inResolver' = m.inResolver
    /\ removedRows' = m.removedRows

\* the events the event source produces: of a contact or of none, and, where
\* the model looks at them, of a category outside the mask or of a contact
\* without the required address
ResolvedEvents ==
    {Event(0, c, CallCategory, HasPhoneNumber) : c \in 0 .. MaxContact}
    \cup (IF eventCategoryMask = AnyCategory THEN {}
          ELSE {Event(0, 1, SMSCategory, HasPhoneNumber)})
    \cup (IF addressFlags = {} THEN {}
          ELSE {Event(0, 1, CallCategory, {})})

\* the events whose recipient is still to be resolved
UnresolvedEvents ==
    {Event(0, 0, CallCategory, {})}
    \cup (IF eventCategoryMask = AnyCategory THEN {}
          ELSE {Event(0, 0, SMSCategory, {})})

Min(a, b) == IF a <= b THEN a ELSE b

\* the batches of up to n events with the ids from first on
Batches(S, first, n) ==
    UNION {{[i \in 1 .. k |-> [f[i] EXCEPT !.id = first + i - 1]] : f \in [1 .. k -> S]} :
               k \in 1 .. n}

Ids(events) == {events[i].id : i \in DOMAIN events}

\* the ids of the events the model holds
Held(m) ==
    Ids(m.rows) \cup Ids(m.resolvedEvents) \cup Ids(m.inResolver)
        \cup Ids(m.unresolvedEvents)

\* the events overtaken after a call that left the model as m: when the call
\* has put events of its batch, whose ids start at first, into the list, the
\* events still in the resolver, all of earlier batches, are overtaken
Overtaken(m, first) ==
    (overtaken \cup (IF \E i \in DOMAIN m.rows : m.rows[i].id >= first
                     THEN Ids(m.inResolver) ELSE {}))
        \cap Held(m)

\* the event source hands a batch to prependEvents (fillModel, addToModel)
PrependEvents(resolved, track) ==
    /\ \E events \in Batches(IF resolved THEN ResolvedEvents ELSE UnresolvedEvents,
                             nextId, Min(MaxBatch, MaxEvents - nextId + 1)) :
          LET m == prependEvents(MergerState, events, resolved)
          IN  /\ nextId' = nextId + Len(events)
              /\ CommitMerger(m)
              /\ overtaken' = IF track THEN Overtaken(m, nextId) ELSE overtaken
    /\ UNCHANGED <<queryLimit, eventCategoryMask, excludeFavorites, addressFlags,
                   favorites, notified, rvars>>

\* the outcomes of resolving the events in the resolver
Resolutions ==
    {[i \in DOMAIN inResolver |->
         [inResolver[i] EXCEPT !.contactId = f[i].contactId,
                               !.contactFlags = f[i].contactFlags]] :
        f \in [DOMAIN inResolver ->
                  {e \in ResolvedEvents : e.category = CallCategory}]}

\* the resolver has finished: the events come back through prependEvents
ResolverFinished ==
    /\ inResolver # <<>>
    /\ \E events \in Resolutions :
          LET m == prependEvents([MergerState EXCEPT !.inResolver = <<>>],
                                 events, TRUE)
          IN  /\ CommitMerger(m)
              /\ overtaken' = overtaken \cap Held(m)
    /\ UNCHANGED <<queryLimit, eventCategoryMask, excludeFavorites, addressFlags,
                   favorites, notified, nextId, rvars>>

NoPropertyRequired == {}
PhoneNumberRequired == {"PhoneNumberRequired"}

\* RecentContactsModel::setRequiredProperty
SetRequiredProperty ==
    /\ \E requiredProperty \in {NoPropertyRequired, PhoneNumberRequired} :
          LET flags == IF (requiredProperty \cap PhoneNumberRequired) # {}
                       THEN HasPhoneNumber ELSE {}
          IN  /\ flags # addressFlags
              /\ addressFlags' = flags
    /\ UNCHANGED <<rows, unresolvedEvents, resolvedEvents, resolvedContactIds,
                   inResolver, removedRows, overtaken, queryLimit, eventCategoryMask, excludeFavorites,
                   favorites, notified, nextId, rvars>>

\* RecentContactsModel::setExcludeFavorites
SetExcludeFavorites ==
    /\ \E exclude \in BOOLEAN :
          /\ excludeFavorites # exclude
          /\ excludeFavorites' = exclude
          /\ notified' = {}
    /\ UNCHANGED <<rows, unresolvedEvents, resolvedEvents, resolvedContactIds,
                   inResolver, removedRows, overtaken, queryLimit, eventCategoryMask, addressFlags,
                   favorites, nextId, rvars>>

\* the user makes a contact a favorite, or no favorite, in the directory
FavoriteChanged ==
    /\ \E c \in 1 .. MaxFavorite :
          /\ favorites' = IF c \in favorites THEN favorites \ {c}
                                             ELSE favorites \cup {c}
          /\ notified' = notified \ {c}
    /\ UNCHANGED <<rows, unresolvedEvents, resolvedEvents, resolvedContactIds,
                   inResolver, removedRows, overtaken, queryLimit, eventCategoryMask, excludeFavorites,
                   addressFlags, nextId, rvars>>

\* the directory reports changed details of a contact
ContactDetailsChanged(track) ==
    /\ \E c \in 1 .. MaxFavorite :
          LET m == [slotContactDetailsChanged(MergerState, {c})
                       EXCEPT !.removedRows = removedRows]
          IN  /\ CommitMerger(m)
              /\ overtaken' = overtaken \cap Held(m)
              /\ notified' = IF track /\ excludeFavorites /\ contactIsFavorite(c)
                             THEN notified \cup {c} ELSE notified
    /\ UNCHANGED <<queryLimit, eventCategoryMask, excludeFavorites, addressFlags,
                   favorites, nextId, rvars>>

MNextOf(track) ==
    \/ PrependEvents(TRUE, track)
    \/ PrependEvents(FALSE, track)
    \/ ResolverFinished
    \/ SetRequiredProperty
    \/ SetExcludeFavorites
    \/ FavoriteChanged
    \/ ContactDetailsChanged(track)

MNext == MNextOf(FALSE)

\* the recent contacts model
MergerSpec == MInit /\ [][MNext]_vars

\* the recent contacts model with the history of the events overtaken in the
\* resolver and of the favorites the model has been told of
MergerHistorySpec == MInit /\ [][MNextOf(TRUE)]_vars

\* the longest list the removal of rows is applied to
MaxRows == 5

\* a list of n rows, one contact each
RowList(n) == [i \in 1 .. n |-> Event(i, i, CallCategory, HasPhoneNumber)]

RemovalInit ==
    /\ \E n \in 0 .. MaxRows : rows = RowList(n) /\ nextId = n + 1
    /\ unresolvedEvents = <<>>
    /\ resolvedEvents = <<>>
    /\ resolvedContactIds = {}
    /\ inResolver = <<>>
    /\ removedRows = <<>>
    /\ overtaken = {}
    /\ excludeFavorites = FALSE
    /\ addressFlags = {}
    /\ favorites = {}
    /\ notified = {}
    /\ queryLimit = 0
    /\ eventCategoryMask = AnyCategory
    /\ ResolverIdle

\* prependEvents, lines 272-295, for one set of rows to remove
RemoveObsolete ==
    \E removeSet \in SUBSET (0 .. Len(rows) - 1) :
        /\ CommitMerger(removeObsolete(MergerState, sorted(removeSet)))
        /\ UNCHANGED <<overtaken, queryLimit, eventCategoryMask, excludeFavorites,
                       addressFlags, favorites, notified, nextId, rvars>>

\* the removal of obsolete rows, applied to lists of up to MaxRows rows
RemovalSpec == RemovalInit /\ [][RemoveObsolete]_vars

\* the resolver gives back the events it holds: the step of ResolverFinished,
\* after which the resolver holds nothing or the next event of the queue
EventsReturned ==
    /\ inResolver # <<>>
    /\ \/ inResolver' = <<>>
       \/ /\ unresolvedEvents # <<>>
          /\ inResolver' = <<Head(unresolvedEvents)>>

\* every event handed to the resolver comes back
MergerFairness == WF_inResolver(EventsReturned)

MergerLive == MInit /\ [][MNext]_vars /\ MergerFairness

\* the recent contacts model, for the properties of the queue of unresolved
\* events in one ingestion pass
IngestionSpec == MInit /\ [][MNext]_vars

\* the recent contacts model, for the properties of what a pass accepts and
\* trims
AcceptanceSpec == MInit /\ [][MNext]_vars

(***************************************************************************)
(* Properties of the resolver.                                             *)
(***************************************************************************)
NumberA == Recipient(RingA, <<"5", "5">>)
NumberB == Recipient(RingB, <<"5", "-", "5">>)
Account == Recipient(Gabble, <<"x">>)
NoLocalUid == Recipient(<<>>, <<"5", "5">>)
NoRemoteUid == Recipient(RingA, <<>>)

\* C1: every Idle -> Resolving transition is ended by exactly one finished():
\* the transitions never run ahead of the finished() signals by more than the
\* one open episode, finished() is never emitted while Idle (the signals never
\* outnumber the transitions), and the resolver is Resolving exactly while
\* one transition is not yet ended.
C1_FinishedOncePerEpisode ==
    /\ unfinished \in {0, 1}
    /\ resolving <=> unfinished = 1

\* an episode was ended by a directory callback while the deferred check of
\* an earlier start is still queued
C1_Witness ==
    /\ ~resolving
    /\ unfinished = 0
    /\ checkQueue > 0
    /\ adds >= 2

\* C4: a pair that is pending has had exactly one directory lookup since
\* its last outcome, and submitting it again changes nothing: no lookup, no
\* second pending entry.
C4_Dedup ==
    \A r \in Recipients :
        /\ lookups[r] <= 1
        /\ r \in pending =>
              /\ lookups[r] = 1
              /\ \A cache \in [{r} -> CacheItems] :
                    resolve(ResolverState, r, cache, forceResolving) = ResolverState

\* two add calls have submitted nothing but NumberA, which is pending with
\* one lookup
C4_Witness ==
    /\ adds = 2
    /\ pending = {NumberA}
    /\ lookups[NumberA] = 1
    /\ dirRequests = {Request(NumberA)}
    /\ \A r \in Recipients : ~outcome[r].resolved
    /\ checkQueue = 0

\* every directory query of the batch is answered from the cache
AllHits(recipients) == [Queried(Range(recipients)) -> CacheItems \ {NullItem}]

\* C5: a batched add whose directory queries are all answered from the cache
\* creates no pending entry and emits no finished() during the call; the
\* resolver is Resolving when it returns; and when it started the episode,
\* exactly one checkIfFinished is queued, whose run emits the finished().
C5_BatchOfHits ==
    \A recipients \in Lists(MaxAddList) :
    \A cache \in AllHits(recipients) :
        LET t == addList(ResolverState, recipients, cache, forceResolving)
            u == checkIfFinished([t EXCEPT !.checkQueue = @ - 1])
        IN  /\ t.pending = pending
            /\ t.resolving
            /\ t.unfinished = IF resolving THEN unfinished ELSE unfinished + 1
            /\ ~resolving =>
                  /\ t.pending = {}
                  /\ t.checkQueue = checkQueue + 1
                  /\ ~u.resolving
                  /\ u.unfinished = unfinished

\* the first add call was a list of two cache hits
C5_Witness ==
    /\ adds = 1
    /\ resolving
    /\ pending = {}
    /\ dirRequests = {}
    /\ checkQueue = 1
    /\ unfinished = 1
    /\ outcome[NumberA] = setResolved(1)
    /\ outcome[Account] = setResolved(1)

PhoneNumbers == {r.remoteUid : r \in {x \in Recipients : isPhoneNumber(x)}} \ {<<>>}

\* C6: a callback with an empty queryLocalUid resolves and erases every
\* pending entry whose number minimizes to the key of queryRemoteUid,
\* whatever its remoteUid string, and leaves the other entries pending.
C6_PhoneFanOut ==
    \A second \in PhoneNumbers :
    \A byNumber \in [pending -> CacheItems] :
        LET t == addressResolved(ResolverState, <<>>, second, NullItem, byNumber)
        IN  \A r \in pending :
               IF minimizePhoneNumber(r.remoteUid) = minimizePhoneNumber(second)
               THEN /\ r \notin t.pending
                    /\ t.outcome[r] = setResolved(byNumber[r])
               ELSE /\ r \in t.pending
                    /\ t.outcome[r] = outcome[r]

\* one add call left both numbers pending and the callback for the first
\* has resolved both, the second lookup is still to be answered
C6_Witness ==
    /\ adds = 1
    /\ outcome[NumberA].resolved
    /\ outcome[NumberB].resolved
    /\ pending = {}
    /\ dirRequests = {Request(NumberB)}

\* C7: the resolver is Idle only with an empty pending set, so that no
\* finished() was emitted with a lookup outstanding and an outstanding
\* lookup keeps the resolver Resolving; and once the finished() of an
\* episode is out, every recipient submitted in it has an outcome.
C7_FinishedOnlyWhenResolved ==
    /\ pending # {} => resolving /\ unfinished = 1
    /\ ~resolving => \A r \in submitted : outcome[r].resolved

\* an episode with a number resolved to nothing by its callback has ended
C7_Witness ==
    /\ ~resolving
    /\ unfinished = 0
    /\ {NumberA, Account, NoLocalUid} \subseteq submitted
    /\ outcome[NumberA] = setResolved(NullItem)

\* C8: with the event loop running every queued check and the directory
\* answering every lookup, every episode ends: the resolver returns to Idle.
C8_EpisodeEnds == resolving ~> ~resolving

\* the episode of a recipient without localUid has ended
C8_Witness ==
    /\ adds = 1
    /\ ~resolving
    /\ unfinished = 0
    /\ checkQueue = 0
    /\ outcome[NoLocalUid] = setResolved(NullItem)
    /\ \A r \in Recipients \ {NoLocalUid} : ~outcome[r].resolved

(***************************************************************************)
(* Properties of the recent contacts model.                                *)
(***************************************************************************)
\* the resolved batches the event source can hand over next
NextBatches ==
    Batches(ResolvedEvents, nextId, Min(MaxBatch, MaxEvents - nextId + 1))

Call(id, contactId) == Event(id, contactId, CallCategory, HasPhoneNumber)

\* the rows named by a list of removed ranges
RowsOf(ranges) == UNION {ranges[i][1] .. ranges[i][2] : i \in DOMAIN ranges}

\* C2: no two rows of the list have the same contact id, and none has the
\* contact id 0: in every state, and so after every ingestion and every
\* completion of the resolver.
C2_OneRowPerContact ==
    \A i, j \in DOMAIN rows :
        /\ eventContact(rows[i]) # 0
        /\ i # j => eventContact(rows[i]) # eventContact(rows[j])

\* without a limit, the third event has replaced the row of its contact at
\* the end of a list of two
C2_Witness ==
    /\ queryLimit = 0
    /\ nextId = 4
    /\ rows = <<Call(3, 1), Call(2, 2)>>
    /\ removedRows = << <<1, 1>> >>

\* C3: with a limit N > 0 the list never has more than N rows, and no
\* ingestion leaves it longer, whatever it held and however many events of
\* the batch were accepted.
C3_AtMostLimit ==
    queryLimit > 0 =>
        /\ Len(rows) <= queryLimit
        /\ \A events \in NextBatches :
              Len(prependEvents(MergerState, events, TRUE).rows) <= queryLimit

\* a full list of one after three events: the last ingestion has removed the
\* row for the new event
C3_Witness ==
    /\ queryLimit = 1
    /\ nextId = 4
    /\ rows = <<Call(3, 2)>>
    /\ removedRows = << <<0, 0>> >>

\* the event passes the tests of category, contact, favorite and address
Eligible(event) ==
    /\ categoryAccepted(event)
    /\ event.contactId # 0
    /\ ~(excludeFavorites /\ contactIsFavorite(event.contactId))
    /\ addressFlags = {} \/ matchesAddressFlags(event, addressFlags)

\* the positions of the batch with the first eligible event of a contact
\* that no accepted event has claimed yet
FirstSeen(events) ==
    {i \in DOMAIN events :
        /\ Eligible(events[i])
        /\ events[i].contactId \notin resolvedContactIds
        /\ \A j \in 1 .. i - 1 :
              Eligible(events[j]) => events[j].contactId # events[i].contactId}

\* the events of the batch at the positions of S, in the order of the batch
RECURSIVE Pick(_, _, _)
Pick(events, S, i) ==
    IF i > Len(events) THEN <<>>
    ELSE (IF i \in S THEN <<events[i]>> ELSE <<>>) \o Pick(events, S, i + 1)

C9_Example == <<Call(1, 1), Call(2, 2), Call(3, 1)>>

\* C9: of a resolved batch, the events accepted are the first eligible
\* events, in the order of the batch, of the contact ids not yet claimed, as
\* far as the limit leaves room; every later event of a claimed contact id is
\* dropped; the accepted events claim their contact ids.  On an empty list
\* with N = 2, [E1(1), E2(2), E3(1)] gives [E1, E2].
C9_FirstSeenWins ==
    /\ \A events \in NextBatches :
          LET a == appendEvents(MergerState, events, TRUE)
              accepted == SubSeq(a.resolvedEvents, Len(resolvedEvents) + 1,
                                 Len(a.resolvedEvents))
              first == Pick(events, FirstSeen(events), 1)
              room == IF queryLimit = 0 THEN Len(first)
                      ELSE queryLimit - Len(resolvedEvents)
          IN  /\ SubSeq(a.resolvedEvents, 1, Len(resolvedEvents)) = resolvedEvents
              /\ accepted = SubSeq(first, 1, Min(room, Len(first)))
              /\ a.resolvedContactIds =
                    resolvedContactIds \cup {accepted[i].contactId : i \in DOMAIN accepted}
    /\ (/\ queryLimit = 2
        /\ rows = <<>>
        /\ resolvedEvents = <<>>
        /\ unresolvedEvents = <<>>
        /\ nextId = 1
        /\ \A i \in DOMAIN C9_Example : Eligible(C9_Example[i]))
       => prependEvents(MergerState, C9_Example, TRUE).rows
             = <<C9_Example[1], C9_Example[2]>>

\* the list after the batch of the example
C9_Witness ==
    /\ queryLimit = 2
    /\ nextId = 4
    /\ rows = <<C9_Example[1], C9_Example[2]>>
    /\ removedRows = <<>>
    /\ inResolver = <<>>

C10_Example == <<Call(1, 1), Call(2, 2)>>

\* C10: when the accepted events are merged into the list, every row whose
\* contact id one of them has claimed is removed in the same call, wherever
\* it is, and without overflow (no limit, or the remaining rows and the new
\* events fit into it) no other row is removed; the rows left keep their
\* order below the new events.  With N = 2, [E1(1), E2(2)] and the batch
\* [E3(2)] give [E3, E1].
C10_ReplacedRowsRemoved ==
    /\ \A events \in NextBatches :
          LET a == appendEvents(MergerState, events, TRUE)
              b == prependEvents(MergerState, events, TRUE)
              merged == a.resolvedEvents # <<>> /\ b.inResolver = inResolver
              claimed == {row \in 0 .. Len(rows) - 1 :
                             eventContact(rows[row + 1]) \in a.resolvedContactIds}
              removed == RowsOf(b.removedRows)
              fits == queryLimit = 0
                      \/ Len(rows) + Len(a.resolvedEvents) - Cardinality(claimed)
                            <= queryLimit
          IN  merged =>
                 /\ claimed \subseteq removed
                 /\ fits => removed = claimed
                 /\ b.rows = a.resolvedEvents
                                \o Pick(rows, {i \in DOMAIN rows : i - 1 \notin removed}, 1)
    /\ (/\ queryLimit = 2
        /\ rows = C10_Example
        /\ resolvedEvents = <<>>
        /\ unresolvedEvents = <<>>
        /\ Eligible(Call(3, 2)))
       => prependEvents(MergerState, <<Call(3, 2)>>, TRUE).rows
             = <<Call(3, 2), C10_Example[1]>>

\* the list of the example after the batch [E3(2)]: the third event has
\* replaced the row of its contact below the head
C10_Witness ==
    /\ queryLimit = 2
    /\ nextId = 4
    /\ rows = <<Call(3, 2), C10_Example[1]>>
    /\ removedRows = << <<1, 1>> >>
    /\ inResolver = <<>>

\* P holds of every call of prependEvents with resolved events that can come
\* next: a batch of the event source, or the events coming back from the
\* resolver
ResolvedCalls(P(_)) ==
    /\ \A events \in NextBatches : P([m |-> MergerState, events |-> events])
    /\ inResolver # <<>> =>
          \A events \in Resolutions :
              P([m |-> [MergerState EXCEPT !.inResolver = <<>>], events |-> events])

\* the call, with a after its loop over the batch and b at its end, merges
\* its accepted events into the list
Merges(call, a, b) ==
    /\ a.resolvedEvents # <<>>
    /\ b.inResolver = call.m.inResolver

\* a call that merges puts its accepted events before the rows it keeps
InsertedAtHead(call) ==
    LET a == appendEvents(call.m, call.events, TRUE)
        b == prependEvents(call.m, call.events, TRUE)
        removed == RowsOf(b.removedRows)
    IN  Merges(call, a, b) =>
           /\ removed \subseteq 0 .. Len(rows) - 1
           /\ b.insertedRows = a.resolvedEvents
           /\ b.rows = a.resolvedEvents
                          \o Pick(rows, {i \in DOMAIN rows : i - 1 \notin removed}, 1)

\* C11: a call that merges makes the list the accepted events, in the order
\* of their acceptance, followed by the old rows without the removed ones in
\* their old order; the inserted rows are the accepted events.
C11_InsertedAtHead == ResolvedCalls(InsertedAtHead)

\* two events of one batch are at the head in their order, the row of the
\* first event is gone
C11_Witness ==
    /\ queryLimit = 0
    /\ nextId = 4
    /\ rows = <<Call(2, 2), Call(3, 1)>>
    /\ removedRows = << <<0, 0>> >>
    /\ inResolver = <<>>
    /\ resolvedEvents = <<>>

\* an event waiting for the resolver
Waiting(id) == Event(id, 0, CallCategory, {})

\* C12: at most one event handed to resolveAddedEvents is in the resolver at
\* any time.
C12_OneInFlight == Len(inResolver) <= 1

\* a second unresolved batch has arrived while the event of the first was in
\* the resolver: both events are in the resolver
C12_TwoInFlight ==
    /\ inResolver = <<Waiting(1), Waiting(2)>>
    /\ unresolvedEvents = <<>>
    /\ rows = <<>>

\* C13: the events of a batch never enter the list after events of a batch
\* ingested later: no row is an event that was still waiting for the resolver
\* when events of a later batch entered the list.
C13_InIngestionOrder ==
    \A i \in DOMAIN rows : rows[i].id \notin overtaken

\* the event of the first batch was in the resolver when the resolved event
\* of the second batch entered the list, and has entered the list above it
C13_OutOfOrder ==
    /\ rows = <<Call(1, 2), Call(2, 1)>>
    /\ overtaken = {1}
    /\ nextId = 3
    /\ inResolver = <<>>

\* the recipients with an empty localUid or an empty remoteUid
WithoutUid == Recipients \ Queried(Recipients)

C15_MalformedCallbackDropped ==
    \A first \in {<<>>, RingA, Gabble} :
    \A item \in CacheItems :
        LET t == addressResolved(ResolverState, first, <<>>, item, <<>>)
        IN  /\ t.pending = pending
            /\ t.outcome = outcome
            /\ t.resolving = resolving
            /\ t.unfinished = unfinished
            /\ t = ResolverState

\* the resolver is Resolving with nothing pending and its check still
\* queued: a callback that checked would end the episode here
C15_Witness ==
    /\ adds = 1
    /\ resolving
    /\ pending = {}
    /\ checkQueue = 1
    /\ unfinished = 1
    /\ outcome[Account] = setResolved(1)
    /\ ~outcome[NumberA].resolved
    /\ ~outcome[NoLocalUid].resolved

\* calls of prependEvents on a full list with one or two resolved events,
\* one of them of a contact that is new to the list
ProbeCalls ==
    IF queryLimit > 0 /\ Len(rows) = queryLimit
    THEN {[m |-> MergerState, events |-> events] :
             events \in {<<Call(nextId, MaxContact + 1)>>}
                 \cup {<<Call(nextId, MaxContact + 1), Call(nextId + 1, c)>> :
                          c \in 0 .. MaxContact + 1}
                 \cup {<<Call(nextId, c), Call(nextId + 1, MaxContact + 1)>> :
                          c \in 0 .. MaxContact}}
    ELSE {}

\* the rows of the list that the events accepted in a replace
Superseded(a) ==
    {row \in 0 .. Len(rows) - 1 :
        eventContact(rows[row + 1]) \in a.resolvedContactIds}

\* the rows by which the list, without the replaced rows and with the
\* events accepted in a, would exceed the limit
Excess(a, superseded) ==
    LET over == Len(rows) + Len(a.resolvedEvents) - Cardinality(superseded)
                    - queryLimit
    IN  IF queryLimit > 0 /\ over > 0 THEN over ELSE 0

\* a call that merges trims the excess over the limit from the tail
OverflowTrimmedFromTail(call) ==
    LET a == appendEvents(call.m, call.events, TRUE)
        b == prependEvents(call.m, call.events, TRUE)
        removed == RowsOf(b.removedRows)
        superseded == Superseded(a)
        trimmed == removed \ superseded
        kept == (0 .. Len(rows) - 1) \ removed
    IN  Merges(call, a, b) =>
           /\ superseded \subseteq removed
           /\ Cardinality(trimmed) = Excess(a, superseded)
           /\ \A t \in trimmed : \A k \in kept : k < t

\* C16: a call that merges removes, besides the replaced rows, exactly the
\* excess over the limit, and these are the last rows of the list among
\* those not replaced; without excess it removes the replaced rows only.
C16_OverflowTrimmedFromTail ==
    /\ ResolvedCalls(OverflowTrimmedFromTail)
    /\ \A call \in ProbeCalls : OverflowTrimmedFromTail(call)

\* a full list of one: the event of contact 1 was its row and has been
\* removed for the event of contact 2
C16_Witness ==
    /\ queryLimit = 1
    /\ nextId = 3
    /\ rows = <<Call(2, 2)>>
    /\ removedRows = << <<0, 0>> >>
    /\ resolvedEvents = <<>>
    /\ inResolver = <<>>

\* C17: the rows to remove leave the list as ranges: every range is a run of
\* rows to remove that no further row to remove touches, a later range lies
\* wholly below the one before it, so that it is within the list when it is
\* applied, and the ranges together are the rows to remove, the rest of the
\* list staying in order.
C17_MaximalRangesHighestFirst ==
    \A removeSet \in SUBSET (0 .. Len(rows) - 1) :
        LET b == removeObsolete(MergerState, sorted(removeSet))
            ranges == b.removedRows
        IN  /\ RowsOf(ranges) = removeSet
            /\ \A i \in DOMAIN ranges :
                  /\ 0 <= ranges[i][1]
                  /\ ranges[i][1] <= ranges[i][2]
                  /\ ranges[i][2] <= Len(rows) - 1
                  /\ i > 1 => ranges[i][2] < ranges[i - 1][1] - 1
            /\ b.rows = Pick(rows, {i \in DOMAIN rows : i - 1 \notin removeSet}, 1)

\* of four rows the first and the last two have been removed, in two ranges
C17_Witness ==
    /\ rows = <<Call(2, 2)>>
    /\ removedRows = << <<2, 3>>, <<0, 0>> >>
    /\ nextId = 5

\* C18: while the model excludes favorites, no row of the list is of a
\* favorite of whose change the model has been told since it began to
\* exclude them.
C18_NoNotifiedFavoriteListed ==
    excludeFavorites =>
        \A i \in DOMAIN rows : eventContact(rows[i]) \notin notified

\* the event of contact 1 was accepted while the second event of its batch
\* was in the resolver, contact 1 became a favorite and the model was told,
\* and the event entered the list when the second event came back
C18_FavoriteListed ==
    /\ excludeFavorites
    /\ favorites = {1}
    /\ notified = {1}
    /\ rows = <<Call(1, 1), Call(2, 2)>>
    /\ inResolver = <<>>
    /\ resolvedEvents = <<>>

\* the unresolved batches the event source can hand over next
UnresolvedCalls ==
    {[m |-> MergerState, events |-> events] :
        events \in Batches(UnresolvedEvents, nextId,
                           Min(MaxBatch, MaxEvents - nextId + 1))}

\* the ids of the events waiting in the queue when the loop over the batch
\* of a call is done
Queued(call, resolved) ==
    Ids(unresolvedEvents)
        \cup (IF resolved THEN {}
              ELSE {call.events[i].id : i \in {j \in DOMAIN call.events :
                                                  categoryAccepted(call.events[j])}})

\* what a call does with the queue: it discards queued events only if the
\* list has a limit and the accepted events number the limit, and then it
\* hands nothing to the resolver; otherwise it hands the head of the queue,
\* and only the head, to the resolver and keeps the rest queued
QueueKept(call, resolved) ==
    LET a == appendEvents(call.m, call.events, resolved)
        b == prependEvents(call.m, call.events, resolved)
        discarded == Queued(call, resolved) \ Held(b)
    IN  /\ Ids(a.unresolvedEvents) = Queued(call, resolved)
        /\ discarded # {} =>
              /\ queryLimit > 0
              /\ Len(a.resolvedEvents) = queryLimit
              /\ discarded = Queued(call, resolved)
              /\ b.inResolver = call.m.inResolver
        /\ (Queued(call, resolved) # {} /\ discarded = {}) =>
              /\ queryLimit = 0 \/ Len(a.resolvedEvents) < queryLimit
              /\ b.inResolver = Append(call.m.inResolver, Head(a.unresolvedEvents))
              /\ b.unresolvedEvents = Tail(a.unresolvedEvents)
              /\ b.rows = rows
        /\ queryLimit = 0 => discarded = {}

\* C19: queued unresolved events are discarded only if the list has a limit
\* and the events accepted for the next merge number the limit; otherwise
\* the head of the queue goes to the resolver and nothing is discarded; an
\* unbounded list discards none.
C19_DiscardOnlyAtLimit ==
    /\ \A call \in UnresolvedCalls : QueueKept(call, FALSE)
    /\ ResolvedCalls(LAMBDA call : QueueKept(call, TRUE))

\* limit 1: the first of two unresolved events came back with contact 1 and
\* filled the list, the second was discarded from the queue
C19_Witness ==
    /\ queryLimit = 1
    /\ nextId = 3
    /\ rows = <<Call(1, 1)>>
    /\ removedRows = <<>>
    /\ unresolvedEvents = <<>>
    /\ inResolver = <<>>
    /\ resolvedEvents = <<>>
    /\ overtaken = {}

\* the event has a category of the mask and a contact
Presentable(event) ==
    /\ eventCategoryMask = AnyCategory \/ (event.category \cap eventCategoryMask) # {}
    /\ event.contactId # 0

\* the event may be accepted under the settings of this moment
Acceptable(event) ==
    /\ Presentable(event)
    /\ excludeFavorites => event.contactId \notin favorites
    /\ addressFlags # {} => (event.contactFlags \cap addressFlags) # {}

\* the shortest prefixes of the batch after which the accepted events number
\* the limit
Filling(call) ==
    {k \in DOMAIN call.events :
        /\ queryLimit > 0
        /\ Len(appendEvents(call.m, SubSeq(call.events, 1, k), TRUE).resolvedEvents)
              = queryLimit
        /\ \A j \in 1 .. k - 1 :
              Len(appendEvents(call.m, SubSeq(call.events, 1, j), TRUE).resolvedEvents)
                 < queryLimit}

\* C20: the rows of the list and the events accepted for the next merge have
\* a category of the mask and a contact; a call accepts only events of its
\* batch that pass, at that moment, the tests of category, contact, favorite
\* and required address, and inserts only accepted events; once the accepted
\* events number the limit the rest of the batch is not looked at: its events
\* are not accepted and claim no contact id; an unresolved batch accepts none.
C20_OnlyAcceptableEventsEnter ==
    /\ \A i \in DOMAIN rows : Presentable(rows[i])
    /\ \A i \in DOMAIN resolvedEvents : Presentable(resolvedEvents[i])
    /\ ResolvedCalls(LAMBDA call :
          LET a == appendEvents(call.m, call.events, TRUE)
              b == prependEvents(call.m, call.events, TRUE)
              accepted == Range(a.resolvedEvents) \ Range(resolvedEvents)
          IN  /\ accepted \subseteq Range(call.events)
              /\ \A event \in accepted : Acceptable(event)
              /\ Range(b.insertedRows) \subseteq Range(resolvedEvents) \cup accepted
              /\ Len(a.resolvedEvents) = queryLimit =>
                 \A k \in Filling(call) :
                    /\ accepted \subseteq Range(SubSeq(call.events, 1, k))
                    /\ a.resolvedContactIds
                          = resolvedContactIds
                               \cup {event.contactId : event \in accepted})
    /\ \A call \in UnresolvedCalls :
          /\ appendEvents(call.m, call.events, FALSE).resolvedEvents = resolvedEvents
          /\ appendEvents(call.m, call.events, FALSE).resolvedContactIds
                = resolvedContactIds

\* calls only, a required phone number and a limit of 1: of a batch of two
\* the first event had no contact and the second, of contact 2, entered
C20_Witness ==
    /\ eventCategoryMask = CallCategory
    /\ addressFlags = HasPhoneNumber
    /\ queryLimit = 1
    /\ rows = <<Call(2, 2)>>
    /\ nextId = 3
    /\ removedRows = <<>>
    /\ inResolver = <<>>
    /\ unresolvedEvents = <<>>
    /\ resolvedEvents = <<>>

\* the recipients an exact pair callback can name
ExactPairs == {r \in Recipients : ~isEmpty(r.localUid) /\ ~isEmpty(r.remoteUid)}

\* C21: a callback with both uids given resolves, with the item it carries,
\* the one pending entry equal to the pair and removes it, and leaves every
\* other entry pending and every other outcome as it was; for a pair that is
\* not pending it changes neither the pending set nor any outcome.
C21_ExactPairOnly ==
    \A r \in ExactPairs : \A item \in CacheItems :
        LET t == addressResolved(ResolverState, r.localUid, r.remoteUid, item, <<>>)
        IN  IF r \in pending
            THEN /\ t.pending = pending \ {r}
                 /\ t.outcome = [outcome EXCEPT ![r] = setResolved(item)]
            ELSE /\ t.pending = pending
                 /\ t.outcome = outcome

\* the account and a number were submitted together; the callback for the
\* account has resolved it to no contact, the number is still pending
C21_Witness ==
    /\ adds = 1
    /\ resolving
    /\ pending = {NumberA}
    /\ outcome[Account] = setResolved(NullItem)
    /\ ~outcome[NumberA].resolved
    /\ dirRequests = {Request(NumberA)}

\* what a call signals: resolvingChanged at most once, only if the call
\* leaves no event queued and hands none to the resolver
SignalsWhenDone(call, resolved) ==
    LET b == prependEvents(call.m, call.events, resolved)
    IN  /\ b.resolvingChanged \in {0, 1}
        /\ b.resolvingChanged > 0 =>
              /\ b.unresolvedEvents = <<>>
              /\ b.inResolver = call.m.inResolver
        /\ b.inResolver # call.m.inResolver => b.resolvingChanged = 0

\* C22: an ingestion pass emits resolvingChanged only if it leaves no
\* unresolved event queued, the queue having been empty or discarded; a pass
\* that hands the next queued event to the resolver emits none.
C22_SignalOnlyWhenQueueEmpty ==
    /\ \A call \in UnresolvedCalls : SignalsWhenDone(call, FALSE)
    /\ ResolvedCalls(LAMBDA call : SignalsWhenDone(call, TRUE))

\* the first of two unresolved events has come back and was accepted, the
\* pass has handed the second to the resolver
C22_Witness ==
    /\ nextId = 3
    /\ rows = <<>>
    /\ resolvedEvents = <<Call(1, 1)>>
    /\ unresolvedEvents = <<>>
    /\ inResolver = <<Waiting(2)>>

\* the pass that led to this step handed an event to the resolver
HandsToResolver == Ids(inResolver') \ Ids(inResolver) # {}

\* C23: a pass that hands a queued event to the resolver leaves the rows of
\* the list as they are and removes and inserts none; so an event that never
\* comes back keeps the accepted events of its batch from the list and takes
\* nothing from it.
C23_HandOffLeavesList ==
    [][HandsToResolver => (rows' = rows /\ removedRows' = <<>>)]_vars

\* the list has the row of an earlier batch, untouched, while the event of a
\* later unresolved batch is in the resolver
C23_Witness ==
    /\ nextId = 3
    /\ rows = <<Call(1, 1)>>
    /\ removedRows = <<>>
    /\ resolvedEvents = <<>>
    /\ unresolvedEvents = <<>>
    /\ inResolver = <<Waiting(2)>>

\* the recipients a submit finds resolved
Resolved == {r \in Recipients : outcome[r].resolved}

\* what the directory's cache can hold for the recipient
Caches(r) == [Queried({r}) -> CacheItems]

\* the submit has left the resolver's lookups, pending set and outcomes alone
Untouched(t) ==
    /\ t.pending = pending
    /\ t.dirRequests = dirRequests
    /\ t.lookups = lookups
    /\ t.outcome = outcome

\* the submit has asked the directory for r: it has the answer of the cache
\* as outcome, or r pending with one more lookup to be answered
LookedUp(t, r, cache) ==
    /\ r \in Queried({r})
    /\ IF cache[r] # NullItem
       THEN /\ t.outcome = [outcome EXCEPT ![r] = setResolved(cache[r])]
            /\ t.pending = pending
            /\ t.dirRequests = dirRequests
       ELSE /\ t.pending = pending \cup {r}
            /\ t.dirRequests = dirRequests \cup {Request(r)}
            /\ t.lookups = [lookups EXCEPT ![r] = @ + 1]
            /\ t.outcome = outcome

\* with force-resolve off the submit of a resolved recipient is without effect
ResolvedSkipped ==
    \A r \in Resolved : \A cache \in Caches(r) :
        Untouched(add(ResolverState, r, cache, FALSE))

C25_PendingImpliesResolving == pending # {} => resolving

\* two submits have left three recipients pending
C25_Witness ==
    /\ adds = 2
    /\ pending = {NumberA, NumberB, Account}
    /\ resolving
    /\ checkQueue = 0
    /\ unfinished = 1

\* C26: between the operations of the resolver, while isResolving() is true
\* and no recipient is pending, a checkIfFinished is queued in the event
\* loop: the resolver is never left resolving with nothing to end it.
C26_CheckQueuedWhenNothingPending ==
    (resolving /\ pending = {}) => checkQueue > 0

\* a stray callback has ended the first episode before its queued check ran;
\* the second submit, all hits, has queued a second check
C26_Witness ==
    /\ adds = 2
    /\ resolving
    /\ pending = {}
    /\ dirRequests = {}
    /\ checkQueue = 2
    /\ unfinished = 1

\* C27: with every event handed to the resolver coming back, the queue of
\* unresolved events becomes empty again, every queued event leaves it, and
\* every event accepted for the next merge becomes a row of the list.
C27_QueueDrainsAndAcceptedCommitted ==
    /\ (unresolvedEvents # <<>>) ~> (unresolvedEvents = <<>>)
    /\ \A id \in 1 .. MaxEvents :
          (id \in Ids(resolvedEvents)) ~> (id \in Ids(rows))

\* the two events of an unresolved batch have come back one after the other
\* and are rows of the unbounded list, the queue is empty
C27_Witness ==
    /\ queryLimit = 0
    /\ ~excludeFavorites
    /\ favorites = {}
    /\ nextId = 3
    /\ rows = <<Call(1, 1), Call(2, 2)>>
    /\ removedRows = <<>>
    /\ resolvedEvents = <<>>
    /\ unresolvedEvents = <<>>
    /\ inResolver = <<>>

====
